---- MODULE Spec2Model ----
(***************************************************************************)
(* Model of stapi_fastapi.routers.root_router.RootRouter: construction,    *)
(* the product registry, the in-memory product listing, and the handlers   *)
(* that delegate to backend functions and translate their Result values    *)
(* into responses, links and HTTP errors.                                  *)
(***************************************************************************)
EXTENDS Integers, Sequences, FiniteSets, TLC

VARIABLES
    init_args,        \* the arguments __init__ was called with
    phase,            \* "new" | "ready" | "config_error" (outcome of __init__)
    conformances,     \* self.conformances
    has_records_fn,   \* hasattr(self, "_get_opportunity_search_records")
    has_record_fn,    \* hasattr(self, "_get_opportunity_search_record")
    product_routers,  \* self.product_routers, a dict in insertion order
    product_ids,      \* self.product_ids
    routes,           \* routers passed to include_router, in call order
    orders_db,        \* InMemoryOrderDB._orders, a dict in insertion order
    req,              \* the request being answered
    backend_call,     \* arguments of the backend call made for req
    resp,             \* the client-visible outcome of req
    shadow,           \* outcome of the same request when only the content
                      \* of the backend error differs
    logged,           \* what the handler wrote to the server log
    pc,               \* "idle", or "awaiting" the backend call of req
    walk              \* a client following the "next" links of get_products

vars == <<init_args, phase, conformances, has_records_fn, has_record_fn, product_routers,
          product_ids, routes, orders_db, req, backend_call, resp, shadow,
          logged, pc, walk>>

----------------------------------------------------------------------------
(* Bounds of the model *)

MaxAdds == 3
MaxOrders == 2
MaxLinks == 4
MaxItems == 2
MaxRequests == 4

(* Program constants *)

MAX_LIMIT == 100
DEFAULT_LIMIT == 10
HTTP_200_OK == 200
HTTP_201_CREATED == 201
HTTP_404_NOT_FOUND == 404
HTTP_500_INTERNAL_SERVER_ERROR == 500

CORE == "core"
ASYNC_OPPORTUNITIES == "async-opportunities"
TYPE_JSON == "application/json"
TYPE_GEOJSON == "application/geo+json"

(* Input domains *)

NONE == "<None>"                       \* Python None for an optional str
ProductIdSet == {"p1", "p2", "p3"}
OrderIdSet == {"o1", "o2", "o3"}
Payloads == {"valid", "invalid"}
AppLimits == {-1, 1, DEFAULT_LIMIT}
TEST_PRODUCT == "test-spotlight"
RecordIdSet == {"r1", "r2"}
StatusCodes == {"received", "accepted"}
Cursors == {"", "t1", "t2"}
NextValues == {NONE, "", "p1", "p2", "p3", "zz"}
BackendNextValues == {NONE, "t1"}
Limits == {-1, 0, 1, 2, DEFAULT_LIMIT, MAX_LIMIT, MAX_LIMIT + 1, 200}
ErrorKinds == {"ValueError", "UnicodeError", "KeyError", "RuntimeError"}
ErrorContents == {"secret-a", "secret-b"}
ConformanceSets == {{CORE}, {CORE, ASYNC_OPPORTUNITIES}}

----------------------------------------------------------------------------
(* Python helpers *)

Min(a, b) == IF a < b THEN a ELSE b
Max(a, b) == IF a > b THEN a ELSE b

\* bool(s) of an optional string: None and "" are falsy
Truthy(s) == s # NONE /\ s # ""

\* s[a:b] of a list
PySlice(s, a, b) ==
    LET n == Len(s)
        norm(i) == IF i < 0 THEN Max(i + n, 0) ELSE Min(i, n)
        lo == norm(a)
        hi == norm(b)
    IN  IF lo < hi THEN [k \in 1..(hi - lo) |-> s[lo + k]] ELSE <<>>

\* variant: a missing element is reported as the end of the list
PyIndex_end_if_missing(s, x) ==
    IF \E i \in 1..Len(s) : s[i] = x
    THEN (CHOOSE i \in 1..Len(s) : s[i] = x /\ \A j \in 1..(i - 1) : s[j] # x) - 1
    ELSE Len(s)

\* list.index(x) as a 0-based position, -1 standing for ValueError
PyIndex(s, x) ==
    IF \E i \in 1..Len(s) : s[i] = x
    THEN (CHOOSE i \in 1..Len(s) : s[i] = x /\ \A j \in 1..(i - 1) : s[j] # x) - 1
    ELSE -1

\* isinstance(e, cls) over the exception classes of the model
IsInstance(e, cls) ==
    \/ e.kind = cls
    \/ e.kind = "UnicodeError" /\ cls = "ValueError"

\* returns.maybe: Nothing is <<>>, Some(x) is <<x>>
Nothing == <<>>
Some(x) == <<x>>
IsSome(m) == Len(m) = 1
\* a plain str where a Maybe is expected: matched by no Some(...) pattern
Plain(x) == <<"str", x>>

Link(href, rel, type) == [href |-> href, rel |-> rel, type |-> type]

HasRel(links, rel) == \E i \in 1..Len(links) : links[i].rel = rel
CountRel(links, rel) == Cardinality({i \in 1..Len(links) : links[i].rel = rel})

----------------------------------------------------------------------------
(* URLs: url_for(name, **params) and the URL of the request *)

Url(path, next, limit) == [path |-> path, next |-> next, limit |-> limit]

url_for(name, param) == Url(<<name, param>>, NONE, NONE)

\* URL.include_query_params(next=token): sets or replaces the next parameter
include_query_params_next(url, token) == [url EXCEPT !.next = token]

RouteOf(op) ==
    CASE op = "get_products" -> "root:list-products"
      [] op = "get_orders" -> "root:list-orders"
      [] op = "get_order" -> "root:get-order"
      [] op = "get_order_statuses" -> "root:list-order-statuses"
      [] op = "get_opportunity_search_records" -> "root:list-opportunity-search-records"
      [] op = "get_opportunity_search_record" -> "root:get-opportunity-search-record"
      [] OTHER -> op

Request(op, id, next, limit) ==
    [op |-> op, id |-> id, next |-> next, limit |-> limit,
     url |-> Url(<<RouteOf(op), id>>, next,
                 IF limit = DEFAULT_LIMIT THEN NONE ELSE ToString(limit))]

NoRequest == Request("none", NONE, NONE, DEFAULT_LIMIT)

----------------------------------------------------------------------------
(* Outcomes *)

Ok(status, body, links, location) ==
    [status |-> status, detail |-> NONE, body |-> body, links |-> links,
     location |-> location]

HTTPException(status, detail) ==
    [status |-> status, detail |-> detail, body |-> <<>>, links |-> <<>>,
     location |-> Nothing]

NotFoundException(detail) == HTTPException(HTTP_404_NOT_FOUND, detail)

\* an exception that is not an HTTPException leaves the handler
AssertionError == HTTPException(0, "Expected code to be unreachable")

NoResponse == HTTPException(0, NONE)
NoResult ==
    [tag |-> "none", items |-> <<>>, token |-> <<>>,
     err |-> [kind |-> NONE, content |-> NONE]]
NoCall ==
    [fn |-> "none", id |-> NONE, next |-> NONE, limit |-> <<>>, result |-> NoResult]
NoLog == <<>>
NoWalk == [cursorless |-> FALSE, limit |-> DEFAULT_LIMIT, collected |-> <<>>, requests |-> 0]
NoArgs ==
    [conformances |-> {}, get_opportunity_search_records |-> FALSE,
     get_opportunity_search_record |-> FALSE]

----------------------------------------------------------------------------
(* RootRouter.__init__ *)

\* variant: construction fails only when both functions are missing
init_fails_if_both_missing(confs, records_fn, record_fn) ==
    ASYNC_OPPORTUNITIES \in confs /\ (~records_fn /\ ~record_fn)

init_fails(confs, records_fn, record_fn) ==
    ASYNC_OPPORTUNITIES \in confs /\ (~records_fn \/ ~record_fn)

Construct ==
    /\ phase = "new"
    /\ \E confs \in ConformanceSets, records_fn \in BOOLEAN, record_fn \in BOOLEAN :
          /\ req' = [NoRequest EXCEPT !.op = "__init__"]
          /\ init_args' = [conformances |-> confs,
                           get_opportunity_search_records |-> records_fn,
                           get_opportunity_search_record |-> record_fn]
          /\ IF init_fails(confs, records_fn, record_fn)
             THEN /\ phase' = "config_error"
                  /\ UNCHANGED <<conformances, has_records_fn, has_record_fn>>
             ELSE /\ phase' = "ready"
                  /\ conformances' = confs
                  /\ has_records_fn' = records_fn
                  /\ has_record_fn' = record_fn
    /\ UNCHANGED <<product_routers, product_ids, routes, orders_db,
                   backend_call, resp, shadow, logged, pc, walk>>

----------------------------------------------------------------------------
(* The product registry *)

DictKeys(d) == [i \in 1..Len(d) |-> d[i].key]
DictHas(d, k) == \E i \in 1..Len(d) : d[i].key = k
DictGet(d, k) == d[CHOOSE i \in 1..Len(d) : d[i].key = k].value

\* d[k] = v: an existing key keeps its position, a new key goes last
DictSet(d, k, v) ==
    IF DictHas(d, k)
    THEN [i \in 1..Len(d) |-> IF d[i].key = k THEN [key |-> k, value |-> v] ELSE d[i]]
    ELSE Append(d, [key |-> k, value |-> v])

\* variant: the registry is a list of pairs, every registration is appended
add_product_routers_appends(d, product_id, product_router) ==
    Append(d, [key |-> product_id, value |-> product_router])

add_product_routers(d, product_id, product_router) ==
    DictSet(d, product_id, product_router)

add_product ==
    /\ phase = "ready"
    /\ pc = "idle"
    /\ Len(routes) < MaxAdds
    /\ \E product_id \in ProductIdSet :
          LET product_router == Len(routes) + 1     \* the ProductRouter just built
          IN  /\ routes' = Append(routes, [prefix |-> product_id, router |-> product_router])
              /\ product_routers' = add_product_routers(product_routers, product_id, product_router)
              /\ product_ids' = DictKeys(product_routers')
              /\ req' = [NoRequest EXCEPT !.op = "add_product", !.id = product_id]
    /\ walk' = NoWalk
    /\ UNCHANGED <<init_args, phase, conformances, has_records_fn, has_record_fn, orders_db,
                   backend_call, resp, shadow, logged, pc>>

----------------------------------------------------------------------------
(* Links *)

\* variant: the link repeats the request URL without setting the token
pagination_link_keeps_url(request, pagination_token) ==
    Link(request.url, "next", TYPE_JSON)

pagination_link(request, pagination_token) ==
    Link(include_query_params_next(request.url, pagination_token), "next", TYPE_JSON)

----------------------------------------------------------------------------
(* RootRouter.get_products *)

products_limit(limit) == Min(limit, MAX_LIMIT)

\* variant: the token of the next page names the last product of this page
get_products_token_in_page(request, ids) ==
    LET start0 == IF Truthy(request.next) THEN PyIndex(ids, request.next) ELSE 0
        limit == products_limit(request.limit)
        end == start0 + limit
        page == PySlice(ids, start0, end)
        self_link == Link(url_for("root:list-products", NONE), "self", TYPE_JSON)
        links == IF end > 0 /\ end < Len(ids)
                 THEN <<self_link, pagination_link(request, ids[end])>>
                 ELSE <<self_link>>
    IN  IF start0 < 0
        THEN NotFoundException("Error finding pagination token for products")
        ELSE Ok(HTTP_200_OK,
                [i \in 1..Len(page) |-> [id |-> page[i], links |-> <<>>]],
                links, Nothing)

get_products(request, ids) ==
    LET start0 == IF Truthy(request.next) THEN PyIndex(ids, request.next) ELSE 0
        limit == products_limit(request.limit)
        end == start0 + limit
        page == PySlice(ids, start0, end)
        self_link == Link(url_for("root:list-products", NONE), "self", TYPE_JSON)
        links == IF end > 0 /\ end < Len(ids)
                 THEN <<self_link, pagination_link(request, ids[end + 1])>>
                 ELSE <<self_link>>
    IN  IF start0 < 0
        THEN NotFoundException("Error finding pagination token for products")
        ELSE Ok(HTTP_200_OK,
                [i \in 1..Len(page) |-> [id |-> page[i], links |-> <<>>]],
                links, Nothing)

get_products_log(response) ==
    IF response.status = HTTP_404_NOT_FOUND
    THEN <<"An error occurred while retrieving products">>
    ELSE NoLog

BodyIds(response) == [i \in 1..Len(response.body) |-> response.body[i].id]

get_products_req ==
    /\ phase = "ready"
    /\ pc = "idle"
    /\ \E next \in NextValues, limit \in Limits :
          LET request == Request("get_products", NONE, next, limit)
          IN  /\ req' = request
              /\ resp' = get_products(request, product_ids)
              /\ shadow' = resp'
              /\ backend_call' = [NoCall EXCEPT !.fn = "product_ids",
                                                !.limit = <<products_limit(limit)>>]
              /\ logged' = get_products_log(resp')
              /\ walk' = [cursorless |-> next = NONE, limit |-> limit,
                          collected |-> BodyIds(resp'), requests |-> 1]
    /\ UNCHANGED <<init_args, phase, conformances, has_records_fn, has_record_fn,
                   product_routers, product_ids, routes, orders_db, pc>>

\* the client requests the href of the "next" link of the page it was given
get_products_next ==
    /\ phase = "ready"
    /\ pc = "idle"
    /\ req.op = "get_products"
    /\ walk.requests < MaxRequests
    /\ \E i \in 1..Len(resp.links) :
          LET request == Request("get_products", NONE, resp.links[i].href.next, req.limit)
          IN  /\ resp.links[i].rel = "next"
              /\ request.url = resp.links[i].href
              /\ req' = request
              /\ resp' = get_products(request, product_ids)
              /\ shadow' = resp'
              /\ backend_call' = [NoCall EXCEPT !.fn = "product_ids",
                                                !.limit = <<products_limit(req.limit)>>]
              /\ logged' = get_products_log(resp')
              /\ walk' = [walk EXCEPT !.collected = walk.collected \o BodyIds(resp'),
                                      !.requests = walk.requests + 1]
    /\ UNCHANGED <<init_args, phase, conformances, has_records_fn, has_record_fn,
                   product_routers, product_ids, routes, orders_db, pc>>

----------------------------------------------------------------------------
(* RootRouter.get_root *)

\* variant: the element is added at the end of the list
PyInsert_appends(s, i, x) == Append(s, x)

\* list.insert(i, x): a negative i counts from the end, out of range is clamped
PyInsert(s, i, x) ==
    LET n == Len(s)
        k == IF i < 0 THEN Max(i + n, 0) ELSE Min(i, n)
    IN  SubSeq(s, 1, k) \o <<x>> \o SubSeq(s, k + 1, n)

supports_async_opportunity_search(confs, records_attr, record_attr) ==
    ASYNC_OPPORTUNITIES \in confs /\ records_attr /\ record_attr

get_root(confs, records_attr, record_attr) ==
    LET links == <<Link(url_for("root:root", NONE), "self", TYPE_JSON),
                   Link(url_for("root:conformance", NONE), "conformance", TYPE_JSON),
                   Link(url_for("root:list-products", NONE), "products", TYPE_JSON),
                   Link(url_for("root:list-orders", NONE), "orders", TYPE_JSON),
                   Link(url_for("openapi", NONE), "service-description", TYPE_JSON),
                   Link(url_for("swagger_ui_html", NONE), "service-docs", "text/html")>>
        all == IF supports_async_opportunity_search(confs, records_attr, record_attr)
               THEN PyInsert(links, -2,
                             Link(url_for("root:list-opportunity-search-records", NONE),
                                  "opportunity-search-records", TYPE_JSON))
               ELSE links
    IN  Ok(HTTP_200_OK, <<[id |-> "STAPI API", links |-> <<>>, conformsTo |-> confs]>>,
           all, Nothing)

get_root_req ==
    /\ phase = "ready"
    /\ pc = "idle"
    /\ req' = Request("get_root", NONE, NONE, DEFAULT_LIMIT)
    /\ resp' = get_root(conformances, has_records_fn, has_record_fn)
    /\ shadow' = resp'
    /\ backend_call' = NoCall
    /\ logged' = NoLog
    /\ UNCHANGED <<init_args, phase, conformances, has_records_fn, has_record_fn,
                   product_routers, product_ids, routes, orders_db, pc, walk>>

----------------------------------------------------------------------------
(* Results of the backend functions (returns.result / returns.maybe).      *)
(* A page is Success((items, Maybe[token])), a lookup is Success(Maybe).   *)

Exception(kind, content) == [kind |-> kind, content |-> content]
NoException == Exception(NONE, NONE)

Success(items, token) ==
    [tag |-> "Success", items |-> items, token |-> token, err |-> NoException]
Failure(e) ==
    [tag |-> "Failure", items |-> <<>>, token |-> Nothing, err |-> e]
\* anything that matches neither Success(...) nor Failure(...) as expected
Unexpected ==
    [tag |-> "Unexpected", items |-> <<>>, token |-> Nothing, err |-> NoException]

Item(id) == [id |-> id, links |-> <<>>]
ItemSeqs(ids) == UNION {[1..n -> {Item(i) : i \in ids}] : n \in 0..MaxItems}
Exceptions == {Exception(k, c) : k \in ErrorKinds, c \in ErrorContents}

PageResults(ids) ==
    {Success(items, Some(c)) : items \in ItemSeqs(ids), c \in Cursors}
        \cup {Success(items, Nothing) : items \in ItemSeqs(ids)}
        \cup {Failure(e) : e \in Exceptions}
        \cup {Unexpected}

LookupResults(ids) ==
    {Success(Some(Item(i)), Nothing) : i \in ids}
        \cup {Success(Nothing, Nothing)}
        \cup {Failure(e) : e \in Exceptions}
        \cup {Unexpected}

\* the same result with only the content of the error changed
OtherContent(c) == CHOOSE d \in ErrorContents : d # c
WithOtherContent(result) ==
    IF result.tag = "Failure"
    THEN Failure(Exception(result.err.kind, OtherContent(result.err.content)))
    ELSE result

\* logger.error(..., traceback.format_exception(e))
log_error(text, e) == <<[text |-> text, kind |-> e.kind, content |-> e.content]>>

----------------------------------------------------------------------------
(* Link builders of the root router *)

\* variant: the href is built from the route of the order collection
generate_order_href_of_list(order_id) == url_for("root:list-orders", order_id)

generate_order_href(order_id) == url_for("root:get-order", order_id)

\* variant: the href is built from the route of the order itself
generate_order_statuses_href_of_order(order_id) == url_for("root:get-order", order_id)

generate_order_statuses_href(order_id) == url_for("root:list-order-statuses", order_id)

add_order_links(order) ==
    [order EXCEPT !.links =
        order.links \o
        <<Link(generate_order_href(order.id), "self", TYPE_GEOJSON),
          Link(generate_order_statuses_href(order.id), "monitor", TYPE_JSON)>>]

order_link(order) == Link(url_for("root:get-order", order.id), "self", TYPE_JSON)

order_statuses_link(order_id) ==
    Link(url_for("root:list-order-statuses", order_id), "self", TYPE_JSON)

generate_opportunity_search_record_href(search_record_id) ==
    url_for("root:get-opportunity-search-record", search_record_id)

add_opportunity_search_record_self_link(record) ==
    [record EXCEPT !.links =
        Append(record.links,
               Link(generate_opportunity_search_record_href(record.id), "self", TYPE_JSON))]

----------------------------------------------------------------------------
(* RootRouter.get_orders *)

get_orders_call(request) ==
    [fn |-> "_get_orders", id |-> NONE, next |-> request.next,
     limit |-> <<request.limit>>, result |-> NoResult]

get_orders(request, result) ==
    LET orders == [i \in 1..Len(result.items) |->
                     [result.items[i] EXCEPT
                        !.links = Append(result.items[i].links, order_link(result.items[i]))]]
    IN  CASE result.tag = "Success" /\ IsSome(result.token) ->
               Ok(HTTP_200_OK, orders, <<pagination_link(request, result.token[1])>>, Nothing)
          [] result.tag = "Success" /\ ~IsSome(result.token) ->
               Ok(HTTP_200_OK, orders, <<>>, Nothing)
          [] result.tag = "Failure" /\ IsInstance(result.err, "ValueError") ->
               NotFoundException("Error finding pagination token")
          [] result.tag = "Failure" /\ ~IsInstance(result.err, "ValueError") ->
               HTTPException(HTTP_500_INTERNAL_SERVER_ERROR, "Error finding Orders")
          [] OTHER -> AssertionError

get_orders_log(result) ==
    IF result.tag = "Failure" /\ ~IsInstance(result.err, "ValueError")
    THEN log_error("An error occurred while retrieving orders", result.err)
    ELSE NoLog

(* RootRouter.get_order_statuses *)

get_order_statuses_call(request) ==
    [fn |-> "_get_order_statuses", id |-> request.id, next |-> request.next,
     limit |-> <<request.limit>>, result |-> NoResult]

get_order_statuses(request, result) ==
    CASE result.tag = "Success" /\ IsSome(result.token) ->
           Ok(HTTP_200_OK, result.items,
              <<order_statuses_link(request.id),
                pagination_link(request, result.token[1])>>, Nothing)
      [] result.tag = "Success" /\ ~IsSome(result.token) ->
           Ok(HTTP_200_OK, result.items, <<order_statuses_link(request.id)>>, Nothing)
      [] result.tag = "Failure" /\ IsInstance(result.err, "KeyError") ->
           NotFoundException("Error finding pagination token")
      [] result.tag = "Failure" /\ ~IsInstance(result.err, "KeyError") ->
           HTTPException(HTTP_500_INTERNAL_SERVER_ERROR, "Error finding Order Statuses")
      [] OTHER -> AssertionError

get_order_statuses_log(result) ==
    IF result.tag = "Failure" /\ ~IsInstance(result.err, "KeyError")
    THEN log_error("An error occurred while retrieving order statuses", result.err)
    ELSE NoLog

(* RootRouter.get_opportunity_search_records *)

get_opportunity_search_records_call(request) ==
    [fn |-> "_get_opportunity_search_records", id |-> NONE, next |-> request.next,
     limit |-> <<request.limit>>, result |-> NoResult]

get_opportunity_search_records(request, result) ==
    LET records == [i \in 1..Len(result.items) |->
                      add_opportunity_search_record_self_link(result.items[i])]
    IN  CASE result.tag = "Success" /\ IsSome(result.token) ->
               Ok(HTTP_200_OK, records, <<pagination_link(request, result.token[1])>>, Nothing)
          [] result.tag = "Success" /\ ~IsSome(result.token) ->
               Ok(HTTP_200_OK, records, <<>>, Nothing)
          [] result.tag = "Failure" /\ IsInstance(result.err, "ValueError") ->
               NotFoundException("Error finding pagination token")
          [] result.tag = "Failure" /\ ~IsInstance(result.err, "ValueError") ->
               HTTPException(HTTP_500_INTERNAL_SERVER_ERROR,
                             "Error finding Opportunity Search Records")
          [] OTHER -> AssertionError

get_opportunity_search_records_log(result) ==
    IF result.tag = "Failure" /\ ~IsInstance(result.err, "ValueError")
    THEN log_error("An error occurred while retrieving opportunity search records",
                   result.err)
    ELSE NoLog

(* RootRouter.get_order *)

get_order_call(request) ==
    [fn |-> "_get_order", id |-> request.id, next |-> NONE, limit |-> <<>>,
     result |-> NoResult]

\* variant: the 500 detail carries the text of the backend error
get_order_echoes_error(request, result) ==
    CASE result.tag = "Success" /\ result.items # Nothing ->
           Ok(HTTP_200_OK, <<add_order_links(result.items[1])>>, <<>>, Nothing)
      [] result.tag = "Success" /\ result.items = Nothing ->
           NotFoundException("Order not found")
      [] result.tag = "Failure" ->
           HTTPException(HTTP_500_INTERNAL_SERVER_ERROR, result.err.content)
      [] OTHER -> AssertionError

get_order(request, result) ==
    CASE result.tag = "Success" /\ result.items # Nothing ->
           Ok(HTTP_200_OK, <<add_order_links(result.items[1])>>, <<>>, Nothing)
      [] result.tag = "Success" /\ result.items = Nothing ->
           NotFoundException("Order not found")
      [] result.tag = "Failure" ->
           HTTPException(HTTP_500_INTERNAL_SERVER_ERROR, "Error finding Order")
      [] OTHER -> AssertionError

get_order_log(result) ==
    IF result.tag = "Failure"
    THEN log_error("An error occurred while retrieving order", result.err)
    ELSE NoLog

(* RootRouter.get_opportunity_search_record *)

get_opportunity_search_record_call(request) ==
    [fn |-> "_get_opportunity_search_record", id |-> request.id, next |-> NONE,
     limit |-> <<>>, result |-> NoResult]

\* variant: the miss is reported with the detail of the order lookup
get_opportunity_search_record_order_detail(request, result) ==
    CASE result.tag = "Success" /\ result.items # Nothing ->
           Ok(HTTP_200_OK,
              <<add_opportunity_search_record_self_link(result.items[1])>>, <<>>, Nothing)
      [] result.tag = "Success" /\ result.items = Nothing ->
           NotFoundException("Order not found")
      [] result.tag = "Failure" ->
           HTTPException(HTTP_500_INTERNAL_SERVER_ERROR,
                         "Error finding Opportunity Search Record")
      [] OTHER -> AssertionError

get_opportunity_search_record(request, result) ==
    CASE result.tag = "Success" /\ result.items # Nothing ->
           Ok(HTTP_200_OK,
              <<add_opportunity_search_record_self_link(result.items[1])>>, <<>>, Nothing)
      [] result.tag = "Success" /\ result.items = Nothing ->
           NotFoundException("Opportunity Search Record not found")
      [] result.tag = "Failure" ->
           HTTPException(HTTP_500_INTERNAL_SERVER_ERROR,
                         "Error finding Opportunity Search Record")
      [] OTHER -> AssertionError

get_opportunity_search_record_log(result) ==
    IF result.tag = "Failure"
    THEN log_error("An error occurred while retrieving opportunity search record",
                   result.err)
    ELSE NoLog

----------------------------------------------------------------------------
(* Requests to the delegating handlers; the backend function is any        *)
(* implementation of the interface, so its result is an input.             *)

RegistryVars == <<walk, init_args, phase, conformances, has_records_fn, has_record_fn,
                  product_routers, product_ids, routes>>

get_orders_await ==
    /\ phase = "ready"
    /\ pc = "idle"
    /\ \E next \in BackendNextValues, limit \in Limits :
          LET request == Request("get_orders", NONE, next, limit)
          IN  /\ req' = request
              /\ backend_call' = get_orders_call(request)
    /\ pc' = "awaiting"
    /\ resp' = NoResponse
    /\ shadow' = NoResponse
    /\ logged' = NoLog
    /\ UNCHANGED <<RegistryVars, orders_db>>

get_orders_resume ==
    /\ pc = "awaiting"
    /\ req.op = "get_orders"
    /\ \E result \in PageResults(OrderIdSet) :
          /\ backend_call' = [backend_call EXCEPT !.result = result]
          /\ resp' = get_orders(req, result)
          /\ shadow' = get_orders(req, WithOtherContent(result))
          /\ logged' = get_orders_log(result)
    /\ pc' = "idle"
    /\ UNCHANGED <<RegistryVars, orders_db, req>>

get_order_statuses_await ==
    /\ phase = "ready"
    /\ pc = "idle"
    /\ \E order_id \in OrderIdSet, next \in BackendNextValues, limit \in Limits :
          LET request == Request("get_order_statuses", order_id, next, limit)
          IN  /\ req' = request
              /\ backend_call' = get_order_statuses_call(request)
    /\ pc' = "awaiting"
    /\ resp' = NoResponse
    /\ shadow' = NoResponse
    /\ logged' = NoLog
    /\ UNCHANGED <<RegistryVars, orders_db>>

get_order_statuses_resume ==
    /\ pc = "awaiting"
    /\ req.op = "get_order_statuses"
    /\ \E result \in PageResults(StatusCodes) :
          /\ backend_call' = [backend_call EXCEPT !.result = result]
          /\ resp' = get_order_statuses(req, result)
          /\ shadow' = get_order_statuses(req, WithOtherContent(result))
          /\ logged' = get_order_statuses_log(result)
    /\ pc' = "idle"
    /\ UNCHANGED <<RegistryVars, orders_db, req>>

\* the search-record routes exist only under the async conformance
get_opportunity_search_records_await ==
    /\ phase = "ready"
    /\ pc = "idle"
    /\ ASYNC_OPPORTUNITIES \in conformances
    /\ \E next \in BackendNextValues, limit \in Limits :
          LET request == Request("get_opportunity_search_records", NONE, next, limit)
          IN  /\ req' = request
              /\ backend_call' = get_opportunity_search_records_call(request)
    /\ pc' = "awaiting"
    /\ resp' = NoResponse
    /\ shadow' = NoResponse
    /\ logged' = NoLog
    /\ UNCHANGED <<RegistryVars, orders_db>>

get_opportunity_search_records_resume ==
    /\ pc = "awaiting"
    /\ req.op = "get_opportunity_search_records"
    /\ \E result \in PageResults(RecordIdSet) :
          /\ backend_call' = [backend_call EXCEPT !.result = result]
          /\ resp' = get_opportunity_search_records(req, result)
          /\ shadow' = get_opportunity_search_records(req, WithOtherContent(result))
          /\ logged' = get_opportunity_search_records_log(result)
    /\ pc' = "idle"
    /\ UNCHANGED <<RegistryVars, orders_db, req>>

get_order_await ==
    /\ phase = "ready"
    /\ pc = "idle"
    /\ \E order_id \in OrderIdSet :
          LET request == Request("get_order", order_id, NONE, DEFAULT_LIMIT)
          IN  /\ req' = request
              /\ backend_call' = get_order_call(request)
    /\ pc' = "awaiting"
    /\ resp' = NoResponse
    /\ shadow' = NoResponse
    /\ logged' = NoLog
    /\ UNCHANGED <<RegistryVars, orders_db>>

get_order_resume ==
    /\ pc = "awaiting"
    /\ req.op = "get_order"
    /\ \E result \in LookupResults(OrderIdSet) :
          /\ backend_call' = [backend_call EXCEPT !.result = result]
          /\ resp' = get_order(req, result)
          /\ shadow' = get_order(req, WithOtherContent(result))
          /\ logged' = get_order_log(result)
    /\ pc' = "idle"
    /\ UNCHANGED <<RegistryVars, orders_db, req>>

\* the search-record routes exist only under the async conformance
get_opportunity_search_record_await ==
    /\ phase = "ready"
    /\ pc = "idle"
    /\ ASYNC_OPPORTUNITIES \in conformances
    /\ \E search_record_id \in RecordIdSet :
          LET request == Request("get_opportunity_search_record", search_record_id, NONE, DEFAULT_LIMIT)
          IN  /\ req' = request
              /\ backend_call' = get_opportunity_search_record_call(request)
    /\ pc' = "awaiting"
    /\ resp' = NoResponse
    /\ shadow' = NoResponse
    /\ logged' = NoLog
    /\ UNCHANGED <<RegistryVars, orders_db>>

get_opportunity_search_record_resume ==
    /\ pc = "awaiting"
    /\ req.op = "get_opportunity_search_record"
    /\ \E result \in LookupResults(RecordIdSet) :
          /\ backend_call' = [backend_call EXCEPT !.result = result]
          /\ resp' = get_opportunity_search_record(req, result)
          /\ shadow' = get_opportunity_search_record(req, WithOtherContent(result))
          /\ logged' = get_opportunity_search_record_log(result)
    /\ pc' = "idle"
    /\ UNCHANGED <<RegistryVars, orders_db, req>>

----------------------------------------------------------------------------
(* The test application: the in-memory backends behind the routers *)

\* MockProductBackend.create_order: stores and returns the new order
MockProductBackend_create_order(product_id, payload, uuid) ==
    IF payload = "valid"
    THEN Success(Some([id |-> uuid, links |-> <<>>, product_id |-> product_id,
                       status |-> "received"]), Nothing)
    ELSE Failure(Exception("ValueError", "secret-a"))

\* MockRootBackend.get_order: Success(Maybe.from_optional(_orders.get(order_id)))
MockRootBackend_get_order(db, order_id) ==
    IF DictHas(db, order_id)
    THEN Success(Some(DictGet(db, order_id)), Nothing)
    ELSE Success(Nothing, Nothing)

\* MockRootBackend.get_orders: a page of the stored orders, the token a plain str
MockRootBackend_get_orders(db, next, limit0) ==
    LET limit == IF limit0 > MAX_LIMIT THEN MAX_LIMIT ELSE limit0
        order_ids == DictKeys(db)
        start == IF Truthy(next) THEN PyIndex(order_ids, next) ELSE 0
        end == Min(start + limit, Len(order_ids))
        ids == PySlice(order_ids, start, end)
        orders == [i \in 1..Len(ids) |-> DictGet(db, ids[i])]
        n == Len(order_ids)
    IN  CASE start < 0 -> Failure(Exception("ValueError", "secret-a"))
          [] start >= 0 /\ end < n /\ end # 0 /\ end < -n ->
               Failure(Exception("IndexError", "secret-a"))
          [] start >= 0 /\ end < n /\ end # 0 /\ end >= -n ->
               Success(orders, Plain(order_ids[(IF end < 0 THEN end + n ELSE end) + 1]))
          [] OTHER -> Success(orders, Plain(""))

\* ProductRouter.create_order: links, Location header, 201
create_order(result) ==
    CASE result.tag = "Success" ->
           LET order == add_order_links(result.items[1])
           IN  Ok(HTTP_201_CREATED, <<order>>, <<>>, Some(generate_order_href(order.id)))
      [] result.tag = "Failure" ->
           HTTPException(HTTP_500_INTERNAL_SERVER_ERROR, "Error creating the Order")
      [] OTHER -> AssertionError

\* the handler appends to the links of the object the backend holds
StoreBack(db, response) ==
    [i \in 1..Len(db) |->
        IF \E j \in 1..Len(response.body) : response.body[j].id = db[i].key
        THEN [key |-> db[i].key,
              value |-> response.body[CHOOSE j \in 1..Len(response.body) :
                                          response.body[j].id = db[i].key]]
        ELSE db[i]]

create_order_req ==
    /\ phase = "ready"
    /\ pc = "idle"
    /\ Len(orders_db) < MaxOrders
    /\ \E product_id \in {product_ids[i] : i \in 1..Len(product_ids)},
          payload \in Payloads,
          uuid \in OrderIdSet \ {orders_db[i].key : i \in 1..Len(orders_db)} :
          LET result == MockProductBackend_create_order(product_id, payload, uuid)
          IN  /\ req' = Request("create_order", product_id, NONE, DEFAULT_LIMIT)
              /\ backend_call' = [NoCall EXCEPT !.fn = "create_order", !.id = product_id,
                                                !.result = result]
              /\ resp' = create_order(result)
              /\ shadow' = create_order(WithOtherContent(result))
              /\ logged' = IF result.tag = "Failure"
                           THEN log_error("An error occurred while creating order", result.err)
                           ELSE NoLog
              /\ orders_db' = IF result.tag = "Success"
                               THEN Append(orders_db, [key |-> uuid,
                                                       value |-> resp'.body[1]])
                               ELSE orders_db
    /\ UNCHANGED <<RegistryVars, pc>>

get_order_app ==
    /\ phase = "ready"
    /\ pc = "idle"
    /\ \E order_id \in OrderIdSet :
          LET request == Request("get_order", order_id, NONE, DEFAULT_LIMIT)
              result == MockRootBackend_get_order(orders_db, order_id)
          IN  /\ DictHas(orders_db, order_id)
                    => Len(DictGet(orders_db, order_id).links) + 2 <= MaxLinks
              /\ req' = request
              /\ backend_call' = [get_order_call(request) EXCEPT !.result = result]
              /\ resp' = get_order(request, result)
              /\ shadow' = resp'
              /\ logged' = get_order_log(result)
              /\ orders_db' = StoreBack(orders_db, resp')
    /\ UNCHANGED <<RegistryVars, pc>>

get_orders_app ==
    /\ phase = "ready"
    /\ pc = "idle"
    /\ \E next \in {NONE} \cup OrderIdSet, limit \in AppLimits :
          LET request == Request("get_orders", NONE, next, limit)
              result == MockRootBackend_get_orders(orders_db, next, limit)
          IN  /\ \A i \in 1..Len(result.items) : Len(result.items[i].links) < MaxLinks
              /\ req' = request
              /\ backend_call' = [get_orders_call(request) EXCEPT !.result = result]
              /\ resp' = get_orders(request, result)
              /\ shadow' = resp'
              /\ logged' = get_orders_log(result)
              /\ orders_db' = StoreBack(orders_db, resp')
    /\ UNCHANGED <<RegistryVars, pc>>

\* tests/application.py: one router, conformances [CORE], one product added
InitApp ==
    /\ init_args = [NoArgs EXCEPT !.conformances = {CORE}]
    /\ phase = "ready"
    /\ conformances = {CORE}
    /\ has_records_fn = FALSE
    /\ has_record_fn = FALSE
    /\ product_routers = <<[key |-> TEST_PRODUCT, value |-> 1]>>
    /\ product_ids = <<TEST_PRODUCT>>
    /\ routes = <<[prefix |-> TEST_PRODUCT, router |-> 1]>>
    /\ orders_db = <<>>
    /\ req = NoRequest
    /\ backend_call = NoCall
    /\ resp = NoResponse
    /\ shadow = NoResponse
    /\ logged = NoLog
    /\ pc = "idle"
    /\ walk = NoWalk

----------------------------------------------------------------------------

Init ==
    /\ init_args = NoArgs
    /\ phase = "new"
    /\ conformances = {}
    /\ has_records_fn = FALSE
    /\ has_record_fn = FALSE
    /\ product_routers = <<>>
    /\ product_ids = <<>>
    /\ routes = <<>>
    /\ orders_db = <<>>
    /\ req = NoRequest
    /\ backend_call = NoCall
    /\ resp = NoResponse
    /\ shadow = NoResponse
    /\ logged = NoLog
    /\ pc = "idle"
    /\ walk = NoWalk

Next ==
    \/ Construct
    \/ add_product
    \/ get_products_req
    \/ get_products_next
    \/ get_root_req

Spec == Init /\ [][Next]_vars

NextBackend ==
    \/ Construct
    \/ get_orders_await
    \/ get_orders_resume
    \/ get_order_statuses_await
    \/ get_order_statuses_resume
    \/ get_opportunity_search_records_await
    \/ get_opportunity_search_records_resume
    \/ get_order_await
    \/ get_order_resume
    \/ get_opportunity_search_record_await
    \/ get_opportunity_search_record_resume

SpecBackend == Init /\ [][NextBackend]_vars

NextApp ==
    \/ create_order_req
    \/ get_order_app
    \/ get_orders_app

SpecApp == InitApp /\ [][NextApp]_vars

----------------------------------------------------------------------------
(* Properties of the delegating handlers (SpecBackend) *)

PageOps == {"get_orders", "get_order_statuses", "get_opportunity_search_records"}
LookupOps == {"get_order", "get_opportunity_search_record"}
ListOps == PageOps \cup {"get_products"}

\* the handler of req has finished and resp is its outcome
Answered(ops) == pc = "idle" /\ req.op \in ops
BackendSucceeded == backend_call.result.tag = "Success"
BackendFailed == backend_call.result.tag = "Failure"

NextLinks(links) == {i \in 1..Len(links) : links[i].rel = "next"}

\* C1: on a successful page of get_orders, get_order_statuses or
\* get_opportunity_search_records, a next cursor c reported by the backend
\* gives exactly one link with rel "next" whose next query parameter is c, and
\* no reported cursor gives no link with rel "next".
C1_NextLinkIffCursor ==
    (Answered(PageOps) /\ BackendSucceeded) =>
        IF IsSome(backend_call.result.token)
        THEN /\ Cardinality(NextLinks(resp.links)) = 1
             /\ \A i \in NextLinks(resp.links) :
                   resp.links[i].href.next = backend_call.result.token[1]
        ELSE NextLinks(resp.links) = {}

C1_Witness ==
    /\ Answered({"get_order_statuses"})
    /\ backend_call.result.token = Some("t2")
    /\ req.next = "t1"
    /\ Cardinality(NextLinks(resp.links)) = 1

\* C2: on every list endpoint (get_products, get_orders, get_order_statuses,
\* get_opportunity_search_records) the limit in effect is min(limit, 100): the
\* slice size of get_products, the limit handed to the backend by the others.
C2_UniformLimitClamp ==
    (req.op \in ListOps /\ backend_call.fn # "none") =>
        backend_call.limit = <<Min(req.limit, MAX_LIMIT)>>

\* C3: a backend Failure of the cursor-not-resolvable kind (ValueError, the
\* kind get_orders and get_opportunity_search_records translate) becomes a
\* 404 on each of the three paginated operations.
C3_CursorFailureIs404Everywhere ==
    (Answered(PageOps) /\ BackendFailed /\ IsInstance(backend_call.result.err, "ValueError"))
        => resp.status = HTTP_404_NOT_FOUND

\* the exception class each operation matches as an unresolvable cursor
CursorNotResolvable(op, e) ==
    CASE op \in {"get_orders", "get_opportunity_search_records"} -> IsInstance(e, "ValueError")
      [] op = "get_order_statuses" -> IsInstance(e, "KeyError")
      [] OTHER -> FALSE

FixedDetail(op) ==
    CASE op = "get_orders" -> "Error finding Orders"
      [] op = "get_order" -> "Error finding Order"
      [] op = "get_order_statuses" -> "Error finding Order Statuses"
      [] op = "get_opportunity_search_records" -> "Error finding Opportunity Search Records"
      [] op = "get_opportunity_search_record" -> "Error finding Opportunity Search Record"

\* C4: on the five delegating operations a backend Failure that the
\* operation does not treat as an unresolvable cursor gives a 500 whose detail
\* is the fixed string of the operation, and the outcome of a request equals
\* the outcome of the same request run with a backend error of other content.
C4_FailureIs500AndNotEchoed ==
    (Answered(PageOps \cup LookupOps) /\ BackendFailed) =>
        /\ resp = shadow
        /\ ~CursorNotResolvable(req.op, backend_call.result.err) =>
              /\ resp.status = HTTP_500_INTERNAL_SERVER_ERROR
              /\ resp.detail = FixedDetail(req.op)

C4_Witness ==
    /\ Answered({"get_order"})
    /\ BackendFailed
    /\ backend_call.result.err = Exception("ValueError", "secret-b")
    /\ resp.status = HTTP_500_INTERNAL_SERVER_ERROR
    /\ logged # NoLog

----------------------------------------------------------------------------
(* Properties of the product registry and of construction (Spec) *)

IdsOf(seq) == {seq[i] : i \in 1..Len(seq)}

\* C5 as stated: a get_products request whose next value is not an id of
\* product_ids ends in a not-found error.
C5_UnknownNextIsNotFound ==
    (req.op = "get_products" /\ req.next # NONE /\ req.next \notin IdsOf(product_ids))
        => resp.status = HTTP_404_NOT_FOUND

\* C5 as amended: a get_products request whose next value is a non-empty
\* string that is not an id of product_ids ends in a not-found error, never in
\* a 500 and never in a products page; an empty next value is served as a
\* request without cursor.
C5_UnknownNonEmptyNextIsNotFound ==
    req.op = "get_products" =>
        /\ (req.next \notin {NONE, ""} /\ req.next \notin IdsOf(product_ids)) =>
              /\ resp.status = HTTP_404_NOT_FOUND
              /\ resp.body = <<>>
        /\ req.next = "" => resp.status = HTTP_200_OK

C5_Witness ==
    /\ req.op = "get_products"
    /\ Len(product_ids) = 2
    /\ req.next = "p3"
    /\ req.limit = 1
    /\ resp.status = HTTP_404_NOT_FOUND

LastRouterFor(id) ==
    routes[CHOOSE i \in 1..Len(routes) :
              /\ routes[i].prefix = id
              /\ \A j \in (i + 1)..Len(routes) : routes[j].prefix # id].router

\* C6: after any sequence of add_product calls product_ids holds every
\* registered id exactly once and no other id, equals the key order of
\* product_routers, and the router stored for an id is the one built by the
\* most recent add_product for that id.
C6_RegistryUniqueLastWriteWins ==
    /\ product_ids = [i \in 1..Len(product_routers) |-> product_routers[i].key]
    /\ IdsOf(product_ids) = {routes[i].prefix : i \in 1..Len(routes)}
    /\ \A i, j \in 1..Len(product_ids) : product_ids[i] = product_ids[j] => i = j
    /\ \A i \in 1..Len(product_routers) :
          product_routers[i].value = LastRouterFor(product_routers[i].key)

C6_Witness ==
    /\ Len(routes) = 3
    /\ routes[1].prefix = routes[3].prefix
    /\ routes[2].prefix # routes[1].prefix
    /\ product_ids = <<routes[1].prefix, routes[2].prefix>>
    /\ product_routers[1].value = 3

\* C10: constructing the router with the async-opportunities identifier in
\* the conformance list and one of the two search-record functions missing
\* fails with a configuration error and leaves no router; every constructed
\* router with the identifier holds both functions.
C10_AsyncConformanceNeedsBothFunctions ==
    /\ (/\ phase # "new"
        /\ ASYNC_OPPORTUNITIES \in init_args.conformances
        /\ ~(init_args.get_opportunity_search_records
               /\ init_args.get_opportunity_search_record))
          => phase = "config_error"
    /\ phase = "config_error" =>
          /\ conformances = {} /\ ~has_records_fn /\ ~has_record_fn
          /\ product_routers = <<>> /\ resp = NoResponse
    /\ (phase = "ready" /\ ASYNC_OPPORTUNITIES \in conformances)
          => (has_records_fn /\ has_record_fn)

C10_Witness ==
    /\ phase = "config_error"
    /\ init_args.get_opportunity_search_records
    /\ ~init_args.get_opportunity_search_record

----------------------------------------------------------------------------
(* Properties of the lookups (SpecBackend) *)

\* C9: a get_order answered by the backend with a success carrying no order
\* is a 404 "Order not found", a get_opportunity_search_record answered with
\* a success carrying no record is a 404 "Opportunity Search Record not
\* found"; the two details differ from each other and from the detail of an
\* unresolvable pagination cursor.
C9_LookupMissHasOwnNotFound ==
    /\ (Answered({"get_order"}) /\ BackendSucceeded /\ backend_call.result.items = Nothing)
          => (resp.status = HTTP_404_NOT_FOUND /\ resp.detail = "Order not found")
    /\ (Answered({"get_opportunity_search_record"}) /\ BackendSucceeded
          /\ backend_call.result.items = Nothing)
          => (/\ resp.status = HTTP_404_NOT_FOUND
              /\ resp.detail = "Opportunity Search Record not found")
    /\ (Answered(PageOps) /\ resp.status = HTTP_404_NOT_FOUND)
          => (/\ resp.detail = "Error finding pagination token"
              /\ resp.detail \notin {"Order not found", "Opportunity Search Record not found"})
    /\ (Answered(LookupOps) /\ resp.status = HTTP_404_NOT_FOUND)
          => resp.detail = (IF req.op = "get_order" THEN "Order not found"
                            ELSE "Opportunity Search Record not found")

C9_Witness ==
    /\ Answered({"get_opportunity_search_record"})
    /\ backend_call.result = Success(Nothing, Nothing)
    /\ resp.status = HTTP_404_NOT_FOUND

----------------------------------------------------------------------------
(* Properties of the test application (SpecApp) *)

LookupPath(order_id) == Url(<<"root:get-order", order_id>>, NONE, NONE)
StatusListPath(order_id) == Url(<<"root:list-order-statuses", order_id>>, NONE, NONE)

\* find_link: the first link with the given rel
FirstRel(links, rel) ==
    links[CHOOSE i \in 1..Len(links) :
             links[i].rel = rel /\ \A j \in 1..(i - 1) : links[j].rel # rel]

\* C7: get_order(X) for an order X created through the creation endpoint
\* succeeds and returns an order with id X whose links contain a "self" link
\* to the lookup path of X and a "monitor" link to the status-list path of X.
C7_CreatedOrderRoundTrip ==
    (req.op = "get_order" /\ req.id \in {orders_db[i].key : i \in 1..Len(orders_db)}) =>
        /\ resp.status = HTTP_200_OK
        /\ Len(resp.body) = 1
        /\ resp.body[1].id = req.id
        /\ \E i \in 1..Len(resp.body[1].links) :
              /\ resp.body[1].links[i].rel = "self"
              /\ resp.body[1].links[i].href = LookupPath(req.id)
              /\ resp.body[1].links[i].href = req.url
        /\ \E i \in 1..Len(resp.body[1].links) :
              /\ resp.body[1].links[i].rel = "monitor"
              /\ resp.body[1].links[i].href = StatusListPath(req.id)

C7_Witness ==
    /\ req.op = "get_order"
    /\ Len(orders_db) = 2
    /\ req.id = orders_db[2].key
    /\ resp.status = HTTP_200_OK

\* C8: a successful order creation on a registered product answers 201 and
\* its Location is the href of the "self" link of the returned order, the
\* lookup path built from the id of the order.
C8_CreatedLocationIsSelfLink ==
    (req.op = "create_order" /\ BackendSucceeded) =>
        /\ resp.status = HTTP_201_CREATED
        /\ Len(resp.body) = 1
        /\ HasRel(resp.body[1].links, "self")
        /\ resp.location = Some(FirstRel(resp.body[1].links, "self").href)
        /\ resp.location = Some(LookupPath(resp.body[1].id))

C8_Witness ==
    /\ req.op = "create_order"
    /\ BackendSucceeded
    /\ req.id = TEST_PRODUCT
    /\ resp.status = HTTP_201_CREATED
    /\ Len(orders_db) = 2

----------------------------------------------------------------------------
(* Properties of the landing page (Spec) *)

Rels(links) == [i \in 1..Len(links) |-> links[i].rel]

\* C11: get_root returns the links self, conformance, products, orders,
\* service-description, service-docs in that order; the link
\* "opportunity-search-records" is present exactly when the async-opportunities
\* identifier is in the conformance list and both search-record functions are
\* held, and then it occurs once, after orders and immediately before
\* service-description and service-docs, which stay the last two links.
C11_RootLinksOrder ==
    req.op = "get_root" =>
        /\ resp.status = HTTP_200_OK
        /\ IF ASYNC_OPPORTUNITIES \in conformances /\ has_records_fn /\ has_record_fn
           THEN Rels(resp.links) =
                  <<"self", "conformance", "products", "orders",
                    "opportunity-search-records", "service-description", "service-docs">>
           ELSE Rels(resp.links) =
                  <<"self", "conformance", "products", "orders",
                    "service-description", "service-docs">>

C11_Witness ==
    /\ req.op = "get_root"
    /\ ASYNC_OPPORTUNITIES \in conformances
    /\ Len(resp.links) = 7
    /\ resp.links[5].rel = "opportunity-search-records"

----------------------------------------------------------------------------
(* Properties of the product listing (Spec) *)

\* C12: for every registry, cursor and integer limit the number of products
\* in a successful get_products response is at most min(limit, 100): never
\* more than 100 and never more than the limit asked for (no product at all
\* when the limit is below zero).
C12_PageSizeAtMostLimit ==
    (req.op = "get_products" /\ resp.status = HTTP_200_OK) =>
        Len(resp.body) <= Max(Min(req.limit, MAX_LIMIT), 0)

\* C13: for a fixed registry and a limit of at least 1, the pages obtained by
\* a get_products request without cursor followed by requests of the "next"
\* links are, concatenated, product_ids in order; each later page starts at
\* the product named by its cursor; a "next" link is present exactly when ids
\* remain after the page; the chain takes at most one request per product and
\* so ends with a page without "next" link that completes the list.
C13_PaginationCompleteAndTerminates ==
    (req.op = "get_products" /\ walk.cursorless /\ walk.limit >= 1) =>
        /\ resp.status = HTTP_200_OK
        /\ Len(walk.collected) <= Len(product_ids)
        /\ walk.collected = SubSeq(product_ids, 1, Len(walk.collected))
        /\ req.next # NONE => (resp.body # <<>> /\ resp.body[1].id = req.next)
        /\ Len(resp.body) = Min(walk.limit, Len(resp.body) + Len(product_ids) - Len(walk.collected))
        /\ Cardinality(NextLinks(resp.links)) =
              (IF Len(walk.collected) < Len(product_ids) THEN 1 ELSE 0)
        /\ NextLinks(resp.links) = {} => walk.collected = product_ids
        /\ walk.requests <= Max(Len(product_ids), 1)

C13_Witness ==
    /\ req.op = "get_products"
    /\ walk.cursorless
    /\ walk.limit = 1
    /\ walk.requests = 3
    /\ Len(product_ids) = 3
    /\ walk.collected = product_ids
    /\ NextLinks(resp.links) = {}

\* C14: with the in-memory backend, which returns its stored order object,
\* every get_order response carries exactly one "self" and exactly one
\* "monitor" link, and every order listed by a get_orders response carries
\* exactly one "self" link, whatever requests came before.
C14_LinksDoNotAccumulate ==
    /\ (req.op = "get_order" /\ resp.status = HTTP_200_OK) =>
          /\ CountRel(resp.body[1].links, "self") = 1
          /\ CountRel(resp.body[1].links, "monitor") = 1
    /\ (req.op = "get_orders" /\ resp.status = HTTP_200_OK) =>
          \A i \in 1..Len(resp.body) : CountRel(resp.body[i].links, "self") = 1

====
